---- MODULE Spec2Model ----
(***************************************************************************)
(* State-machine model of the Discord download bot (src/bot.py,            *)
(* src/utils.py): URL extraction, the single-flight gate (download_lock),  *)
(* the yt-dlp subprocess with its timeout, the size-based dispatch, the    *)
(* attachment path, the temporary HTTP servers and the delayed cleanup     *)
(* threads.                                                                *)
(*                                                                         *)
(* The event loop runs one coroutine at a time; a coroutine gives up the   *)
(* loop only at an await that really suspends.  Each action below is one   *)
(* such run-to-suspension segment of a handler, or one step of a thread    *)
(* or of the environment (the subprocess, the clock).                      *)
(***************************************************************************)
EXTENDS Integers, Sequences, FiniteSets, TLC

\* ------------------------------------------------------------ bounds
NumMsgs == 2
MaxTime == 1
MaxChunks == 3

\* --------------------------------------------------------- constants
MAX_ATTACHMENT_BYTES == 15728640
max_attempts == 10

Msgs == 1 .. NumMsgs

\* ------------------------------------------------------------ texts
\* A text is a sequence of one-character strings.
NoUrl == << >>

HttpScheme == << "h", "t", "t", "p", ":", "/", "/" >>
HttpsScheme == << "h", "t", "t", "p", "s", ":", "/", "/" >>

\* The character class of url_pattern as Python parses it.  In the raw
\* string every backslash is doubled, so the class ends at the first "]"
\* that follows an escaped backslash: it excludes whitespace, the angle
\* brackets, the double quote, the braces, the bar, the backslash, the caret,
\* the grave accent and the opening square bracket, and the pattern's
\* trailing "]+" is one or more literal closing square brackets.  (The grave
\* accent cannot be written in a TLA+ string; no text of the model holds it.)
ClassExcluded == { " ", "\n", "<", ">", "\"", "{", "}", "|", "\\", "^", "[" }

HasPrefixAt(text, i, pre) ==
    /\ i + Len(pre) - 1 <= Len(text)
    /\ SubSeq(text, i, i + Len(pre) - 1) = pre

\* Length matched by  https?://  at position i, 0 when it does not match.
SchemeLenAt(text, i) ==
    IF HasPrefixAt(text, i, HttpsScheme) THEN Len(HttpsScheme)
    ELSE IF HasPrefixAt(text, i, HttpScheme) THEN Len(HttpScheme)
    ELSE 0

RECURSIVE BracketRun(_, _)
\* Number of consecutive "]" from position j on (the greedy "]+").
BracketRun(text, j) ==
    IF j <= Len(text) /\ text[j] = "]" THEN 1 + BracketRun(text, j + 1) ELSE 0

\* Length of the match of url_pattern anchored at i, 0 when there is none:
\* the scheme, exactly one character of the class, then one or more "]".
MatchLenAt(text, i) ==
    LET n == SchemeLenAt(text, i)
        c == i + n
    IN  IF n = 0 \/ c > Len(text) THEN 0
        ELSE IF text[c] \in ClassExcluded THEN 0
        ELSE LET r == BracketRun(text, c + 1)
             IN  IF r = 0 THEN 0 ELSE n + 1 + r

\* re.search: the leftmost position with a match; None is NoUrl.
extract_url(text) ==
    LET starts == { i \in 1 .. Len(text) : MatchLenAt(text, i) > 0 }
    IN  IF starts = {} THEN NoUrl
        ELSE LET i == CHOOSE s \in starts : \A t \in starts : s <= t
             IN  SubSeq(text, i, i + MatchLenAt(text, i) - 1)

\* ------------------------------------------------------ message inputs
Cat(a, b) == a \o b

\* "hi": no URL at all.
TextNone == << "h", "i" >>
\* "see http://a/v": an ordinary URL inside free text.
TextPlain == Cat(<< "s", "e", "e", " " >>, Cat(HttpScheme, << "a", "/", "v" >>))
\* "http://a]": a text the pattern of the code matches.
TextBracket == Cat(HttpScheme, << "a", "]" >>)

Contents == { TextNone, TextPlain, TextBracket }

Users == { 1 }
\* client.user, the bot's own account.
ClientUser == [id |-> 0, bot |-> TRUE]
OtherBot == [id |-> 9, bot |-> TRUE]
Authors == { ClientUser, OtherBot } \cup { [id |-> u, bot |-> FALSE] : u \in Users }

NoMessage == [author |-> ClientUser, content |-> NoUrl, channel_is_dm |-> FALSE]

\* ------------------------------------------------------------- files
\* A path of the temp directory: download_<ts>_<uid><ext>.
NoPath == [ts |-> -1, uid |-> -1, ext |-> ""]

get_temp_path(ts, uid) == [ts |-> ts, uid |-> uid, ext |-> ""]

\* output_path + ext
WithExt(path, ext) == [path EXCEPT !.ext = path.ext \o ext]

Sizes == { MAX_ATTACHMENT_BYTES, MAX_ATTACHMENT_BYTES + 1 }

\* What one run of the downloader may leave behind for the stem it was given
\* (a run that was killed too): the literal stem, the stem with a media
\* extension, or both.
WriteSets == { {""}, {".mp4"}, {"", ".mp4"} }

VideoExts == << ".mp4", ".webm", ".mkv", ".mov", ".avi" >>

exists(fs, path) == \E f \in fs : f.path = path

getsize(fs, path) == (CHOOSE f \in fs : f.path = path).size

cleanup_file_noop(fs, path) == fs

\* os.path.exists, then os.remove.
cleanup_file(fs, path) == { f \in fs : f.path # path }

NextCtime(fs) ==
    IF fs = {} THEN 1
    ELSE 1 + (CHOOSE c \in { f.ctime : f \in fs } : \A f \in fs : f.ctime <= c)

\* The subprocess of request m writes the files of `paths`, each of `size`.
WriteFiles(fs, paths, size, m) ==
    { f \in fs : f.path \notin paths }
        \cup { [path |-> p, size |-> size, ctime |-> NextCtime(fs), by |-> m] : p \in paths }

RECURSIVE FirstExisting(_, _, _)
\* The for loop over the extensions, then the literal output_path.
FirstExisting(fs, output_path, k) ==
    IF k > Len(VideoExts) THEN output_path
    ELSE IF exists(fs, WithExt(output_path, VideoExts[k]))
         THEN WithExt(output_path, VideoExts[k])
         ELSE FirstExisting(fs, output_path, k + 1)

\* The paths run_ytdlp may return after exit code 0 ({}: "No se genero
\* archivo").  max() over os.listdir returns one of the files of greatest
\* ctime; the listing order decides between equal ctimes.
ResolveOutput(fs, output_path) ==
    IF exists(fs, output_path) THEN { FirstExisting(fs, output_path, 1) }
    ELSE { f.path : f \in { g \in fs : \A h \in fs : h.ctime <= g.ctime } }

\* ------------------------------------------------------------- state
VARIABLES
    now,             \* int(time.time()) as process_download last read it, in seconds
    download_lock,   \* asyncio.Lock: TRUE while held
    last,            \* the on_message call just made: its message, and the lock it met
    msg,             \* the message of each handler that has still to read its channel
    pc,              \* where each message's handler stands
    local,           \* the handler's locals: output_path, downloaded_file, file_size, port
    branch,          \* the branch of process_download the request took
    proc,            \* the yt-dlp subprocess of each request
    files,           \* the files of the temp directory
    active_servers,  \* port -> the file its server serves
    listening,       \* the ports our server sockets are bound to
    server_threads,  \* the ports whose serve_forever thread is running
    attempts,        \* start_file_server calls of the bind loop the latest step ran (0: none)
    cleanups,        \* the threads schedule_cleanup started
    sent,            \* what message.channel.send delivered, per request
    in_text,         \* extraction check: the input text
    out_url,         \* extraction check: what extract_url returned
    ext_pc,          \* extraction check: "idle", "input" or "done"
    http_get,        \* responder check: the GET just handled (port, requested path)
    http_resp        \* responder check: the response to it

vars == << now, download_lock, last, msg, pc, local, branch, proc, files,
           active_servers, listening, server_threads, attempts, cleanups, sent,
           in_text, out_url, ext_pc, http_get, http_resp >>

botVars == << now, download_lock, last, msg, pc, local, branch, proc, files,
              active_servers, listening, server_threads, attempts, cleanups, sent >>

extractVars == << in_text, out_url, ext_pc >>

serveVars == << http_get, http_resp >>

\* random.randint(8000, 8999), cut to two ports.
Ports == { 8000, 8001 }
\* SERVE_PORT: 0 stands for "auto", else the fixed port.
PortConfigs == { 0, 8000 }

NoLocal == [output_path |-> NoPath, downloaded_file |-> NoPath,
            file_size |-> 0, port |-> 0]

\* No on_message call is the latest step.
NoCall == [m |-> 0, message |-> NoMessage, gate |-> FALSE]

NoProc == [st |-> "none", rc |-> 0, wrote |-> FALSE]

\* The handler is between the acquisition of download_lock and its release.
PipelinePcs == { "fetching", "reaping", "send101", "send102", "send_attach",
                 "send110", "send_link", "send103_try", "send103_exc" }

\* The handler has returned (or raised); its record is still to be discarded.
ReturnedPcs == { "ignored", "rejected", "done" }

\* No returned handler is waiting to be discarded.  A returned handler does
\* nothing more and nothing reads its record, so the model discards it
\* before any other step: what a request left behind is then in the files,
\* the servers and the cleanup threads only.
Settled == \A m \in Msgs : pc[m] \notin ReturnedPcs

Notice(kind, path, port) == [kind |-> kind, file |-> path, port |-> port]

InitBot ==
    /\ now = 0
    /\ download_lock = FALSE
    /\ last = NoCall
    /\ msg = [m \in Msgs |-> NoMessage]
    /\ pc = [m \in Msgs |-> "new"]
    /\ local = [m \in Msgs |-> NoLocal]
    /\ branch = [m \in Msgs |-> "none"]
    /\ proc = [m \in Msgs |-> NoProc]
    /\ files = {}
    /\ active_servers = [q \in {} |-> NoPath]
    /\ listening = {}
    /\ server_threads = {}
    /\ attempts = 0
    /\ cleanups = {}
    /\ sent = [m \in Msgs |-> << >>]

\* No GET is the latest step.
NoGet == [port |-> 0, path |-> NoPath]
NoResp == [status |-> 0, body |-> NoPath]

Init ==
    /\ InitBot
    /\ in_text = NoUrl
    /\ out_url = NoUrl
    /\ ext_pc = "idle"
    /\ http_get = NoGet
    /\ http_resp = NoResp

\* ------------------------------------------------------------ the gate
locked_never(lock) == FALSE

\* download_lock.locked()
locked(lock) == lock

acquire_noop(lock) == lock

\* Lock.acquire() on a free lock: taken at once, without suspending.
acquire(lock) == TRUE

LockHeldOnRaise(raised) == raised

\* "async with download_lock": __aexit__ releases the lock whether the body
\* returned or raised.
LockAfterExit(raised) == FALSE

\* The handler of m leaves "async with download_lock" (raised: by an exception).
\* The message, the locals and the Process object end with the call.
Finish(m, raised) ==
    /\ pc' = [pc EXCEPT ![m] = "done"]
    /\ download_lock' = LockAfterExit(raised)
    /\ msg' = [msg EXCEPT ![m] = NoMessage]
    /\ local' = [local EXCEPT ![m] = NoLocal]
    /\ proc' = [proc EXCEPT ![m] = NoProc]

\* ------------------------------------------------------- on_message
\* process_download from its start to run_ytdlp's create_subprocess_exec.
\* The clock is read here only, so the time that has passed since the last
\* reading is drawn here: `timestamp` is the clock now.
\* `started` is whether the subprocess could be created (else the
\* "except Exception" of run_ytdlp returns (False, str(e))).
StartDownload(m, message, timestamp, started) ==
    /\ now' = timestamp
    /\ local' = [local EXCEPT ![m].output_path = get_temp_path(timestamp, message.author.id)]
    /\ IF started
       THEN /\ proc' = [proc EXCEPT ![m] = [st |-> "running", rc |-> 0, wrote |-> FALSE]]
            /\ pc' = [pc EXCEPT ![m] = "fetching"]
            /\ branch' = branch
       ELSE /\ proc' = proc
            /\ pc' = [pc EXCEPT ![m] = "send102"]
            /\ branch' = [branch EXCEPT ![m] = "fetch_failure"]

is_any_channel(message) == TRUE

\* isinstance(message.channel, discord.DMChannel)
is_dm_channel(message) == message.channel_is_dm

ignores_own_only(message, url) == message.author = ClientUser

\* The three early returns of on_message: the bot's own message, another
\* bot's message, no URL extracted.
ignores(message, url) ==
    message.author = ClientUser \/ message.author.bot \/ url = NoUrl

\* A message arrives; messages are delivered in the order of their numbers.
on_message(m) ==
    /\ Settled
    /\ pc[m] = "new"
    /\ \A k \in Msgs : k < m => pc[k] # "new"
    /\ \E a \in Authors, c \in Contents, d \in BOOLEAN, started \in BOOLEAN,
          timestamp \in now .. MaxTime :
         LET message == [author |-> a, content |-> c, channel_is_dm |-> d]
             url == extract_url(message.content)
         IN  /\ last' = [m |-> m, message |-> message, gate |-> download_lock]
             /\ IF ignores(message, url)
                THEN /\ pc' = [pc EXCEPT ![m] = "ignored"]
                     /\ UNCHANGED << now, download_lock, msg, local, proc, branch >>
                ELSE IF locked(download_lock)
                THEN /\ IF is_dm_channel(message)
                        THEN /\ pc' = [pc EXCEPT ![m] = "busy_send"]
                             /\ msg' = [msg EXCEPT ![m] = message]
                        ELSE /\ pc' = [pc EXCEPT ![m] = "rejected"]
                             /\ msg' = msg
                     /\ UNCHANGED << now, download_lock, local, proc, branch >>
                ELSE IF download_lock
                THEN \* Lock.acquire() on a held lock suspends until a release
                     /\ pc' = [pc EXCEPT ![m] = "wait_lock"]
                     /\ msg' = [msg EXCEPT ![m] = message]
                     /\ UNCHANGED << now, download_lock, local, proc, branch >>
                ELSE \* process_download reads message.author.id at its start;
                     \* after that it only sends to message.channel, of
                     \* whatever kind: the message is not kept.
                     /\ download_lock' = acquire(download_lock)
                     /\ msg' = msg
                     /\ StartDownload(m, message, timestamp, started)
    /\ attempts' = 0
    /\ UNCHANGED << files, active_servers, listening, server_threads, cleanups, sent >>
    /\ UNCHANGED extractVars
    /\ UNCHANGED serveVars

\* The busy notice of a direct-message channel; a send that raises ends the
\* handler as well.
BusySend(m) ==
    /\ Settled
    /\ pc[m] = "busy_send"
    /\ \E ok \in BOOLEAN :
         sent' = [sent EXCEPT ![m] = IF ok THEN Append(@, Notice("100", NoPath, 0)) ELSE @]
    /\ pc' = [pc EXCEPT ![m] = "rejected"]
    /\ msg' = [msg EXCEPT ![m] = NoMessage]
    /\ last' = NoCall
    /\ attempts' = 0
    /\ UNCHANGED << now, download_lock, local, branch, proc, files,
                    active_servers, listening, server_threads, cleanups >>
    /\ UNCHANGED extractVars
    /\ UNCHANGED serveVars

\* ---------------------------------------------------- the subprocess
\* yt-dlp writes into the temp directory while it runs.
DownloaderWrite(m) ==
    /\ Settled
    /\ proc[m].st = "running"
    /\ ~proc[m].wrote
    /\ \E w \in WriteSets, size \in Sizes :
         files' = WriteFiles(files, { WithExt(local[m].output_path, e) : e \in w }, size, m)
    /\ proc' = [proc EXCEPT ![m].wrote = TRUE]
    /\ last' = NoCall
    /\ attempts' = 0
    /\ UNCHANGED << now, download_lock, msg, pc, local, branch,
                    active_servers, listening, server_threads, cleanups, sent >>
    /\ UNCHANGED extractVars
    /\ UNCHANGED serveVars

\* yt-dlp exits by itself.
ProcExit(m) ==
    /\ Settled
    /\ proc[m].st = "running"
    /\ \E rc \in { 0, 1 } : proc' = [proc EXCEPT ![m].st = "exited", ![m].rc = rc]
    /\ last' = NoCall
    /\ attempts' = 0
    /\ UNCHANGED << now, download_lock, msg, pc, local, branch, files,
                    active_servers, listening, server_threads, cleanups, sent >>
    /\ UNCHANGED extractVars
    /\ UNCHANGED serveVars

process_wait_skipped(st) == st

\* await process.wait(): returns once the killed subprocess is reaped.
process_wait(st) == "reaped"

TimeoutNever(m) == FALSE /\ UNCHANGED vars

\* asyncio.wait_for expires while communicate() is pending: process.kill().
Timeout(m) ==
    /\ Settled
    /\ pc[m] = "fetching"
    /\ proc[m].st = "running"
    /\ proc' = [proc EXCEPT ![m].st = "killed"]
    /\ pc' = [pc EXCEPT ![m] = "reaping"]
    /\ last' = NoCall
    /\ attempts' = 0
    /\ UNCHANGED << now, download_lock, msg, local, branch, files,
                    active_servers, listening, server_threads, cleanups, sent >>
    /\ UNCHANGED extractVars
    /\ UNCHANGED serveVars

\* process.wait() returns; run_ytdlp returns (False, "TIMEOUT") and
\* process_download goes to its ERROR 101 send.
Reaped(m) ==
    /\ Settled
    /\ pc[m] = "reaping"
    /\ proc' = [proc EXCEPT ![m].st = process_wait(@)]
    /\ pc' = [pc EXCEPT ![m] = "send101"]
    /\ branch' = [branch EXCEPT ![m] = "timeout"]
    /\ last' = NoCall
    /\ attempts' = 0
    /\ UNCHANGED << now, download_lock, msg, local, files,
                    active_servers, listening, server_threads, cleanups, sent >>
    /\ UNCHANGED extractVars
    /\ UNCHANGED serveVars

\* ---------------------------------------------- run_ytdlp's result
\* A failed fetch, or a result file that does not exist: the ERROR 102 send.
FetchFailed(m) ==
    /\ pc' = [pc EXCEPT ![m] = "send102"]
    /\ branch' = [branch EXCEPT ![m] = "fetch_failure"]
    /\ attempts' = 0
    /\ UNCHANGED << local, active_servers, listening, server_threads >>

within_attachment_strict(file_size) == file_size < MAX_ATTACHMENT_BYTES

\* if file_size <= MAX_ATTACHMENT_BYTES
within_attachment(file_size) == file_size <= MAX_ATTACHMENT_BYTES

\* The ports the first bind attempt may try: SERVE_PORT or a random one.
FirstPorts(port_config) == IF port_config = 0 THEN Ports ELSE { port_config }

Registered_skipped(servers, port, path) == servers

\* start_file_server(file_path, port) succeeded: the server is registered.
Registered(servers, port, path) ==
    [q \in (DOMAIN servers) \cup { port } |-> IF q = port THEN path ELSE servers[q]]

port_of_first_attempt(first, bound) == first

\* `port` after the for loop: it is reassigned after every failed attempt
\* only, so at the break it is the port the last attempt bound.
port_after_loop(first, bound) == bound

\* serve_online up to its first send.  The for loop runs without suspending:
\* attempt k binds a free port (a port of ours never binds again; any port
\* may be taken by another process), or all max_attempts attempts fail.
Publish(m, downloaded_file, file_size) ==
    \/ \E k \in 1 .. max_attempts, port_config \in PortConfigs :
         \E first \in FirstPorts(port_config), port \in Ports \ listening :
           /\ k = 1 => port = first
           /\ active_servers' = Registered(active_servers, port, downloaded_file)
           /\ listening' = listening \cup { port }
           /\ server_threads' = server_threads \cup { port }
           /\ attempts' = k
           /\ local' = [local EXCEPT ![m].downloaded_file = downloaded_file,
                                     ![m].file_size = file_size,
                                     ![m].port = port_after_loop(first, port)]
           /\ pc' = [pc EXCEPT ![m] = "send_link"]
           /\ branch' = [branch EXCEPT ![m] = "publish"]
    \/ \E port \in Ports :
           /\ local' = [local EXCEPT ![m].downloaded_file = downloaded_file,
                                     ![m].file_size = file_size,
                                     ![m].port = port]
           /\ pc' = [pc EXCEPT ![m] = "send103_try"]
           /\ branch' = [branch EXCEPT ![m] = "publish_failure"]
           /\ attempts' = max_attempts
           /\ UNCHANGED << active_servers, listening, server_threads >>

\* process_download after a successful run_ytdlp, up to the first send of
\* send_as_attachment or of serve_online.
Dispatch(m, downloaded_file) ==
    IF ~exists(files, downloaded_file) THEN FetchFailed(m)
    ELSE LET file_size == getsize(files, downloaded_file)
         IN  IF within_attachment(file_size)
             THEN /\ local' = [local EXCEPT ![m].downloaded_file = downloaded_file,
                                            ![m].file_size = file_size]
                  /\ pc' = [pc EXCEPT ![m] = "send_attach"]
                  /\ branch' = [branch EXCEPT ![m] = "attach"]
                  /\ attempts' = 0
                  /\ UNCHANGED << active_servers, listening, server_threads >>
             ELSE Publish(m, downloaded_file, file_size)

\* communicate() returned: the rest of run_ytdlp, then process_download.
FetchDone(m) ==
    /\ Settled
    /\ pc[m] = "fetching"
    /\ proc[m].st = "exited"
    /\ IF proc[m].rc # 0 THEN FetchFailed(m)
       ELSE LET found == ResolveOutput(files, local[m].output_path)
            IN  IF found = {} THEN FetchFailed(m)
                ELSE \E path \in found : Dispatch(m, path)
    /\ last' = NoCall
    /\ UNCHANGED << now, download_lock, msg, proc, files, cleanups, sent >>
    /\ UNCHANGED extractVars
    /\ UNCHANGED serveVars

\* ------------------------------------------------------------- sends
Delivered_despite_raise(m, ok, notice) ==
    sent' = [sent EXCEPT ![m] = Append(@, notice)]

\* message.channel.send either delivers the notice or raises.
Delivered(m, ok, notice) ==
    sent' = [sent EXCEPT ![m] = IF ok THEN Append(@, notice) ELSE @]

\* ERROR 101, then return; an exception of the send leaves the handler too.
Send101(m) ==
    /\ Settled
    /\ pc[m] = "send101"
    /\ \E ok \in BOOLEAN :
         /\ Delivered(m, ok, Notice("101", NoPath, 0))
         /\ Finish(m, ~ok)
    /\ last' = NoCall
    /\ attempts' = 0
    /\ UNCHANGED << now, branch, files, active_servers, listening, server_threads, cleanups >>
    /\ UNCHANGED extractVars
    /\ UNCHANGED serveVars

\* ERROR 102, then return.
Send102(m) ==
    /\ Settled
    /\ pc[m] = "send102"
    /\ \E ok \in BOOLEAN :
         /\ Delivered(m, ok, Notice("102", NoPath, 0))
         /\ Finish(m, ~ok)
    /\ last' = NoCall
    /\ attempts' = 0
    /\ UNCHANGED << now, branch, files, active_servers, listening, server_threads, cleanups >>
    /\ UNCHANGED extractVars
    /\ UNCHANGED serveVars

\* send_as_attachment: the send of the file; cleanup_file after it, or the
\* except branch with its ERROR 110 send.
SendAttach(m) ==
    /\ Settled
    /\ pc[m] = "send_attach"
    /\ \E ok \in BOOLEAN :
         /\ Delivered(m, ok, Notice("attachment", local[m].downloaded_file, 0))
         /\ IF ok
            THEN /\ files' = cleanup_file(files, local[m].downloaded_file)
                 /\ Finish(m, FALSE)
                 /\ branch' = branch
            ELSE /\ pc' = [pc EXCEPT ![m] = "send110"]
                 /\ branch' = [branch EXCEPT ![m] = "attach_failure"]
                 /\ UNCHANGED << files, download_lock, msg, local, proc >>
    /\ last' = NoCall
    /\ attempts' = 0
    /\ UNCHANGED << now, active_servers, listening, server_threads, cleanups >>
    /\ UNCHANGED extractVars
    /\ UNCHANGED serveVars

\* The except branch of send_as_attachment: ERROR 110, then cleanup_file.
Send110(m) ==
    /\ Settled
    /\ pc[m] = "send110"
    /\ \E ok \in BOOLEAN :
         /\ Delivered(m, ok, Notice("110", NoPath, 0))
         /\ files' = IF ok THEN cleanup_file(files, local[m].downloaded_file) ELSE files
         /\ Finish(m, ~ok)
    /\ last' = NoCall
    /\ attempts' = 0
    /\ UNCHANGED << now, branch, active_servers, listening, server_threads, cleanups >>
    /\ UNCHANGED extractVars
    /\ UNCHANGED serveVars

\* schedule_cleanup(file_path, port, delay): a thread that sleeps first.
schedule_cleanup(threads, m, path, port) ==
    threads \cup { [id |-> m, file |-> path, port |-> port, pc |-> "sleep"] }

\* serve_online: the send of the link; schedule_cleanup after it, or the
\* except branch with its ERROR 103 send.
SendLink(m) ==
    /\ Settled
    /\ pc[m] = "send_link"
    /\ \E ok \in BOOLEAN :
         /\ Delivered(m, ok, Notice("link", local[m].downloaded_file, local[m].port))
         /\ IF ok
            THEN /\ cleanups' = schedule_cleanup(cleanups, m, local[m].downloaded_file,
                                                 local[m].port)
                 /\ Finish(m, FALSE)
                 /\ branch' = branch
            ELSE /\ pc' = [pc EXCEPT ![m] = "send103_exc"]
                 /\ branch' = [branch EXCEPT ![m] = "link_failure"]
                 /\ UNCHANGED << cleanups, download_lock, msg, local, proc >>
    /\ last' = NoCall
    /\ attempts' = 0
    /\ UNCHANGED << now, files, active_servers, listening, server_threads >>
    /\ UNCHANGED extractVars
    /\ UNCHANGED serveVars

\* The for loop's else: ERROR 103 inside the try, cleanup_file, return.
Send103Try(m) ==
    /\ Settled
    /\ pc[m] = "send103_try"
    /\ \E ok \in BOOLEAN :
         /\ Delivered(m, ok, Notice("103", NoPath, 0))
         /\ IF ok
            THEN /\ files' = cleanup_file(files, local[m].downloaded_file)
                 /\ Finish(m, FALSE)
            ELSE /\ pc' = [pc EXCEPT ![m] = "send103_exc"]
                 /\ UNCHANGED << files, download_lock, msg, local, proc >>
    /\ last' = NoCall
    /\ attempts' = 0
    /\ UNCHANGED << now, branch, active_servers, listening, server_threads, cleanups >>
    /\ UNCHANGED extractVars
    /\ UNCHANGED serveVars

\* The except branch of serve_online: ERROR 103, then cleanup_file.
Send103Exc(m) ==
    /\ Settled
    /\ pc[m] = "send103_exc"
    /\ \E ok \in BOOLEAN :
         /\ Delivered(m, ok, Notice("103", NoPath, 0))
         /\ files' = IF ok THEN cleanup_file(files, local[m].downloaded_file) ELSE files
         /\ Finish(m, ~ok)
    /\ last' = NoCall
    /\ attempts' = 0
    /\ UNCHANGED << now, branch, active_servers, listening, server_threads, cleanups >>
    /\ UNCHANGED extractVars
    /\ UNCHANGED serveVars

\* -------------------------------------------------- cleanup threads
stop_file_server_noop(servers, port) == servers

\* stop_file_server(port): a registered server is shut down and deleted
\* from the registry; its socket goes with it.
stop_file_server(servers, port) ==
    [q \in (DOMAIN servers) \ { port } |-> servers[q]]

thread_waits_gate(lock) == ~lock

\* The body of cleanup() takes no lock: it runs whatever download_lock is.
thread_runnable(lock) == TRUE

\* The thread wakes after its sleep: "if port: stop_file_server(port)".
CleanupStop(t) ==
    /\ Settled
    /\ thread_runnable(download_lock)
    /\ t \in cleanups
    /\ t.pc = "sleep"
    /\ IF t.port # 0 /\ t.port \in DOMAIN active_servers
       THEN /\ active_servers' = stop_file_server(active_servers, t.port)
            /\ listening' = listening \ { t.port }
            /\ server_threads' = server_threads \ { t.port }
       ELSE UNCHANGED << active_servers, listening, server_threads >>
    /\ cleanups' = (cleanups \ { t }) \cup { [t EXCEPT !.pc = "file"] }
    /\ last' = NoCall
    /\ attempts' = 0
    /\ UNCHANGED << now, download_lock, msg, pc, local, branch, proc, files,
                    sent >>
    /\ UNCHANGED extractVars
    /\ UNCHANGED serveVars

\* cleanup_file(file_path) ends the thread.
CleanupFile(t) ==
    /\ Settled
    /\ thread_runnable(download_lock)
    /\ t \in cleanups
    /\ t.pc = "file"
    /\ files' = cleanup_file(files, t.file)
    /\ cleanups' = cleanups \ { t }
    /\ last' = NoCall
    /\ attempts' = 0
    /\ UNCHANGED << now, download_lock, msg, pc, local, branch, proc,
                    active_servers, listening, server_threads, sent >>
    /\ UNCHANGED extractVars
    /\ UNCHANGED serveVars

\* ----------------------------------------------------------- discard
\* The record of a returned handler is dropped.
Discard(m) ==
    /\ pc[m] \in ReturnedPcs
    /\ pc' = [pc EXCEPT ![m] = "gone"]
    /\ sent' = [sent EXCEPT ![m] = << >>]
    /\ branch' = [branch EXCEPT ![m] = "none"]
    /\ last' = NoCall
    /\ attempts' = 0
    /\ UNCHANGED << now, download_lock, msg, local, proc, files, active_servers,
                    listening, server_threads, cleanups >>
    /\ UNCHANGED extractVars
    /\ UNCHANGED serveVars

\* ------------------------------------------------------ specification
Next ==
    \/ \E m \in Msgs : on_message(m)
    \/ \E m \in Msgs : BusySend(m)
    \/ \E m \in Msgs : DownloaderWrite(m)
    \/ \E m \in Msgs : ProcExit(m)
    \/ \E m \in Msgs : Timeout(m)
    \/ \E m \in Msgs : Reaped(m)
    \/ \E m \in Msgs : FetchDone(m)
    \/ \E m \in Msgs : Send101(m)
    \/ \E m \in Msgs : Send102(m)
    \/ \E m \in Msgs : SendAttach(m)
    \/ \E m \in Msgs : Send110(m)
    \/ \E m \in Msgs : SendLink(m)
    \/ \E m \in Msgs : Send103Try(m)
    \/ \E m \in Msgs : Send103Exc(m)
    \/ \E t \in cleanups : CleanupStop(t)
    \/ \E t \in cleanups : CleanupFile(t)
    \/ \E m \in Msgs : Discard(m)

Spec == Init /\ [][Next]_vars

\* What the event loop and the timer of wait_for guarantee: a handler inside
\* the pipeline always has a next step (the subprocess exits or the timeout
\* fires, a send returns or raises) and takes it; a returned handler is
\* discarded.
PipelineStep ==
    \E m \in Msgs :
        \/ Timeout(m) \/ Reaped(m) \/ FetchDone(m)
        \/ Send101(m) \/ Send102(m) \/ SendAttach(m) \/ Send110(m)
        \/ SendLink(m) \/ Send103Try(m) \/ Send103Exc(m)

FairSpec ==
    /\ Spec
    /\ WF_vars(PipelineStep)
    /\ WF_vars(\E m \in Msgs : Discard(m))

\* The cleanup thread of request i takes its next step.
CleanupStep(i) ==
    \E t \in cleanups : t.id = i /\ (CleanupStop(t) \/ CleanupFile(t))

\* The operating system schedules every thread: time.sleep(delay) returns
\* and the thread runs to its end.
FairThreadsSpec ==
    /\ FairSpec
    /\ \A i \in Msgs : WF_vars(CleanupStep(i))

\* ------------------------------------------- extract_url on its own
\* The pieces the input texts are built from.
UrlA == Cat(HttpScheme, << "a", "]" >>)
UrlB == Cat(HttpsScheme, << "b", "]", "]" >>)
Chunks == { HttpScheme, HttpsScheme, UrlA, UrlB,
            << "a" >>, << "]" >>, << " " >>, << "<" >>, << "/" >> }

RECURSIVE TextsOf(_)
\* The concatenations of at most n chunks.
TextsOf(n) ==
    IF n = 0 THEN { << >> }
    ELSE LET shorter == TextsOf(n - 1)
         IN  shorter \cup { Cat(t, c) : t \in shorter, c \in Chunks }

TextInputs == TextsOf(MaxChunks)

InitExtract ==
    /\ InitBot
    /\ in_text \in TextInputs
    /\ out_url = NoUrl
    /\ ext_pc = "input"
    /\ http_get = NoGet
    /\ http_resp = NoResp

\* url = extract_url(message.content)
RunExtract ==
    /\ ext_pc = "input"
    /\ out_url' = extract_url(in_text)
    /\ ext_pc' = "done"
    /\ UNCHANGED in_text
    /\ UNCHANGED botVars
    /\ UNCHANGED serveVars

SpecExtract == InitExtract /\ [][RunExtract]_vars

\* ------------------------------------------ the responder on its own
do_GET_by_path(fs, file_path, path) ==
    IF exists(fs, path) THEN [status |-> 200, body |-> path]
    ELSE [status |-> 404, body |-> NoPath]

\* CustomHandler.do_GET: self.path is not read; the body is the content of
\* self.file_path, named here by the path it is read from.
do_GET(fs, file_path, path) ==
    IF file_path # NoPath /\ exists(fs, file_path)
    THEN [status |-> 200, body |-> file_path]
    ELSE [status |-> 404, body |-> NoPath]

\* The files and the request paths of the responder check ("/" is NoPath).
ServePaths == { get_temp_path(0, 1), WithExt(get_temp_path(0, 1), ".mp4"),
                get_temp_path(1, 1) }
RequestPaths == ServePaths \cup { NoPath }

ServeFiles ==
    { [path |-> p, size |-> MAX_ATTACHMENT_BYTES + 1, ctime |-> 1, by |-> 1] :
          p \in ServePaths }

\* The registries over the ports: every server was created for one path.
ServeRegistries ==
    UNION { [S -> ServePaths] : S \in SUBSET Ports }

\* Servers are running, for files that exist or were deleted already; no
\* request is under way.
InitServe ==
    /\ now = 0
    /\ download_lock = FALSE
    /\ last = NoCall
    /\ msg = [m \in Msgs |-> NoMessage]
    /\ pc = [m \in Msgs |-> "new"]
    /\ local = [m \in Msgs |-> NoLocal]
    /\ branch = [m \in Msgs |-> "none"]
    /\ proc = [m \in Msgs |-> NoProc]
    /\ files \in SUBSET ServeFiles
    /\ active_servers \in ServeRegistries
    /\ listening = DOMAIN active_servers
    /\ server_threads = DOMAIN active_servers
    /\ attempts = 0
    /\ cleanups = {}
    /\ sent = [m \in Msgs |-> << >>]
    /\ in_text = NoUrl
    /\ out_url = NoUrl
    /\ ext_pc = "idle"
    /\ http_get = NoGet
    /\ http_resp = NoResp

\* A client requests `path` from the server of `port`: the handler of that
\* server, created with file_path = the registered file, answers.
HttpGet ==
    /\ \E port \in DOMAIN active_servers, path \in RequestPaths :
         /\ http_get' = [port |-> port, path |-> path]
         /\ http_resp' = do_GET(files, active_servers[port], path)
    /\ UNCHANGED botVars
    /\ UNCHANGED extractVars

\* Some cleanup_file call (of a handler or of a cleanup thread) removes a
\* file while the servers run.
ServeCleanup ==
    /\ \E f \in files : files' = cleanup_file(files, f.path)
    /\ http_get' = NoGet
    /\ http_resp' = NoResp
    /\ UNCHANGED << now, download_lock, last, msg, pc, local, branch, proc,
                    active_servers, listening, server_threads, attempts,
                    cleanups, sent >>
    /\ UNCHANGED extractVars

NextServe == HttpGet \/ ServeCleanup

SpecServe == InitServe /\ [][NextServe]_vars

\* -------------------------------- run_ytdlp's file resolution on its own
\* The stem of the request whose fetch has just ended, and the paths the
\* temp directory may hold then: the stem, the stem with a media extension,
\* and a file of an earlier request.
ResolveStem == get_temp_path(1, 1)
ResolvePaths == { ResolveStem, WithExt(ResolveStem, ".mp4"),
                  WithExt(ResolveStem, ".webm"), get_temp_path(0, 1) }

\* The directories over these paths: each file is absent or present, with
\* one of two creation times.
ResolveDirs ==
    { { [path |-> p, size |-> MAX_ATTACHMENT_BYTES, ctime |-> c[p],
         by |-> IF p.ts = ResolveStem.ts THEN 1 ELSE 0] : p \in P } :
          P \in SUBSET ResolvePaths, c \in [ResolvePaths -> { 1, 2 }] }

\* communicate() of request 1 has returned with exit code 0; the temp
\* directory holds any of the directories above.
InitResolve ==
    /\ now = ResolveStem.ts
    /\ download_lock = TRUE
    /\ last = NoCall
    /\ msg = [m \in Msgs |-> NoMessage]
    /\ pc = [m \in Msgs |-> IF m = 1 THEN "fetching" ELSE "new"]
    /\ local = [m \in Msgs |->
                   IF m = 1 THEN [NoLocal EXCEPT !.output_path = ResolveStem]
                   ELSE NoLocal]
    /\ branch = [m \in Msgs |-> "none"]
    /\ proc = [m \in Msgs |->
                  IF m = 1 THEN [st |-> "exited", rc |-> 0, wrote |-> TRUE]
                  ELSE NoProc]
    /\ files \in ResolveDirs
    /\ active_servers = [q \in {} |-> NoPath]
    /\ listening = {}
    /\ server_threads = {}
    /\ attempts = 0
    /\ cleanups = {}
    /\ sent = [m \in Msgs |-> << >>]
    /\ in_text = NoUrl
    /\ out_url = NoUrl
    /\ ext_pc = "idle"
    /\ http_get = NoGet
    /\ http_resp = NoResp

\* The rest of run_ytdlp, then process_download up to its first send.
NextResolve == \E m \in Msgs : FetchDone(m)

SpecResolve == InitResolve /\ [][NextResolve]_vars

\* ------------------------------- the registry under thread interleaving
\* start_file_server and stop_file_server statement by statement: the main
\* loop runs the bind loop of serve_online for one request while the cleanup
\* threads of earlier requests wake up.  Every dict operation is one step.
RegistryFile == get_temp_path(1, 1)
OldFile(q) == IF q = 8000 THEN get_temp_path(0, 1)
              ELSE WithExt(get_temp_path(0, 1), ".mp4")

OldThread(q) == [id |-> 0, file |-> OldFile(q), port |-> q, pc |-> "sleep"]

socket_closed_at_shutdown(socks, port) == socks \ { port }

\* server.shutdown() ends serve_forever and leaves the socket open: the
\* port stays bound as long as the registry holds the server object.
socket_after_shutdown(socks, port) == socks

\* Request 1 has a file to publish; servers of earlier requests are
\* registered, each with its sleeping cleanup thread.
InitRegistry ==
    /\ now = RegistryFile.ts
    /\ download_lock = TRUE
    /\ last = NoCall
    /\ msg = [m \in Msgs |-> NoMessage]
    /\ pc = [m \in Msgs |-> IF m = 1 THEN "bind_loop" ELSE "new"]
    /\ local = [m \in Msgs |->
                   IF m = 1
                   THEN [output_path |-> RegistryFile, downloaded_file |-> RegistryFile,
                         file_size |-> MAX_ATTACHMENT_BYTES + 1, port |-> 0]
                   ELSE NoLocal]
    /\ branch = [m \in Msgs |-> IF m = 1 THEN "publish" ELSE "none"]
    /\ proc = [m \in Msgs |-> NoProc]
    /\ \E S \in SUBSET Ports :
         /\ active_servers = [q \in S |-> OldFile(q)]
         /\ listening = S
         /\ server_threads = S
         /\ cleanups = { OldThread(q) : q \in S }
         /\ files = { [path |-> OldFile(q), size |-> MAX_ATTACHMENT_BYTES + 1,
                        ctime |-> 1, by |-> 0] : q \in S }
                     \cup { [path |-> RegistryFile, size |-> MAX_ATTACHMENT_BYTES + 1,
                              ctime |-> 2, by |-> 1] }
    /\ attempts = 0
    /\ sent = [m \in Msgs |-> << >>]
    /\ in_text = NoUrl
    /\ out_url = NoUrl
    /\ ext_pc = "idle"
    /\ http_get = NoGet
    /\ http_resp = NoResp

registryFrame ==
    << now, download_lock, last, msg, branch, proc, sent >>

\* One pass of the for loop: create_server binds the port or raises (the
\* port is bound by us or taken by another process); after max_attempts
\* failures the loop is exhausted.
BindAttempt ==
    /\ pc[1] = "bind_loop"
    /\ attempts < max_attempts
    /\ attempts' = attempts + 1
    /\ \E port \in Ports, taken \in BOOLEAN :
         /\ local' = [local EXCEPT ![1].port = port]
         /\ IF port \in listening \/ taken
            THEN /\ pc' = [pc EXCEPT ![1] = IF attempts' = max_attempts
                                             THEN "send103_try" ELSE "bind_loop"]
                 /\ listening' = listening
            ELSE /\ pc' = [pc EXCEPT ![1] = "registering"]
                 /\ listening' = listening \cup { port }
    /\ UNCHANGED << active_servers, server_threads, cleanups, files >>
    /\ UNCHANGED registryFrame
    /\ UNCHANGED extractVars
    /\ UNCHANGED serveVars

\* active_servers[port] = server
RegisterServer ==
    /\ pc[1] = "registering"
    /\ active_servers' = Registered(active_servers, local[1].port, local[1].downloaded_file)
    /\ pc' = [pc EXCEPT ![1] = "starting"]
    /\ UNCHANGED << local, listening, server_threads, cleanups, files, attempts >>
    /\ UNCHANGED registryFrame
    /\ UNCHANGED extractVars
    /\ UNCHANGED serveVars

\* thread.start(): serve_forever runs; start_file_server returns True.
StartServeThread ==
    /\ pc[1] = "starting"
    /\ server_threads' = server_threads \cup { local[1].port }
    /\ pc' = [pc EXCEPT ![1] = "send_link"]
    /\ UNCHANGED << local, active_servers, listening, cleanups, files, attempts >>
    /\ UNCHANGED registryFrame
    /\ UNCHANGED extractVars
    /\ UNCHANGED serveVars

\* The thread t moves on to `to`.
ThreadMoves(t, to) == cleanups' = (cleanups \ { t }) \cup { [t EXCEPT !.pc = to] }

\* The thread wakes: "if port in active_servers".
StopCheck(t) ==
    /\ t.pc = "sleep"
    /\ ThreadMoves(t, IF t.port # 0 /\ t.port \in DOMAIN active_servers
                       THEN "shutting" ELSE "file")
    /\ UNCHANGED << pc, local, active_servers, listening, server_threads, files,
                    attempts >>
    /\ UNCHANGED registryFrame
    /\ UNCHANGED extractVars
    /\ UNCHANGED serveVars

\* active_servers[port].shutdown(); a missing key raises into the except
\* branch of stop_file_server, recorded as the thread's position "raised".
StopShutdown(t) ==
    /\ t.pc = "shutting"
    /\ IF t.port \in DOMAIN active_servers
       THEN /\ server_threads' = server_threads \ { t.port }
            /\ listening' = socket_after_shutdown(listening, t.port)
            /\ ThreadMoves(t, "deleting")
       ELSE /\ ThreadMoves(t, "raised")
            /\ UNCHANGED << server_threads, listening >>
    /\ UNCHANGED << pc, local, active_servers, files, attempts >>
    /\ UNCHANGED registryFrame
    /\ UNCHANGED extractVars
    /\ UNCHANGED serveVars

\* del active_servers[port]: the last reference to the server goes and its
\* socket with it; a missing key raises.
StopDelete(t) ==
    /\ t.pc = "deleting"
    /\ IF t.port \in DOMAIN active_servers
       THEN /\ active_servers' = stop_file_server(active_servers, t.port)
            /\ listening' = IF active_servers[t.port] = t.file
                             THEN listening \ { t.port } ELSE listening
            /\ ThreadMoves(t, "file")
       ELSE /\ ThreadMoves(t, "raised")
            /\ UNCHANGED << active_servers, listening >>
    /\ UNCHANGED << pc, local, server_threads, files, attempts >>
    /\ UNCHANGED registryFrame
    /\ UNCHANGED extractVars
    /\ UNCHANGED serveVars

NextRegistry ==
    \/ BindAttempt
    \/ RegisterServer
    \/ StartServeThread
    \/ \E t \in cleanups : StopCheck(t)
    \/ \E t \in cleanups : StopShutdown(t)
    \/ \E t \in cleanups : StopDelete(t)
    \/ \E t \in cleanups : CleanupFile(t)

SpecRegistry == InitRegistry /\ [][NextRegistry]_vars

\* ============================================================ claims
InPipeline == { m \in Msgs : pc[m] \in PipelinePcs }

\* The latest call is one on_message does not ignore: a message of a user,
\* in which extract_url finds a URL.
LastPassesFilter ==
    /\ last.m # 0
    /\ ~last.message.author.bot
    /\ extract_url(last.message.content) # NoUrl

\* C1: at every instant at most one request is between the acquisition and
\* the release of download_lock, and at most one downloader is running.
C1_AtMostOneInPipeline ==
    /\ Cardinality(InPipeline) <= 1
    /\ Cardinality({ m \in Msgs : proc[m].st \in { "running", "killed" } }) <= 1

\* C1 witness: a second URL message has arrived while a request is fetching.
C1_Witness ==
    \E m1, m2 \in Msgs :
        /\ pc[m1] = "fetching"
        /\ pc[m2] \in { "busy_send", "rejected" }

\* C2: a URL message that arrives while download_lock is held is rejected:
\* its handler goes to the busy branch, starts no subprocess, never waits
\* for the lock, and from the busy branch it only returns.
C2_RejectedNotQueued ==
    /\ [](\A m \in Msgs : pc[m] # "wait_lock")
    /\ []((LastPassesFilter /\ last.gate) =>
              /\ pc[last.m] \in { "busy_send", "rejected" }
              /\ proc[last.m] = NoProc)
    /\ [][\A m \in Msgs :
              pc[m] \in { "busy_send", "rejected", "gone" } =>
                  /\ pc'[m] \in { "busy_send", "rejected", "gone" }
                  /\ proc'[m] = NoProc]_vars

\* C2 witness: a URL message of a user met the held lock and was rejected.
C2_Witness ==
    /\ LastPassesFilter
    /\ last.gate
    /\ pc[last.m] = "rejected"

\* C3: download_lock is held exactly while a handler is inside the pipeline;
\* however the pipeline ends, by a return or by an exception, the lock is
\* free afterwards.
C3_GateHeldIffPipeline ==
    /\ download_lock <=> InPipeline # {}
    /\ \A m \in Msgs : pc[m] = "done" => ~download_lock

\* C3 witness: a pipeline has ended by an exception of the messaging sink
\* (no notice of it was delivered), and the lock is free.
C3_Witness ==
    \E m \in Msgs :
        /\ pc[m] = "done"
        /\ sent[m] = << >>
        /\ branch[m] = "attach_failure"
        /\ ~download_lock

\* C4: a held download_lock is eventually released, and a URL message of a
\* user that arrives while the lock is free is accepted.
C4_GateEventuallyReleased ==
    /\ download_lock ~> ~download_lock
    /\ []((LastPassesFilter /\ ~last.gate) => pc[last.m] \in PipelinePcs)

\* C4 witness: a fetch was ended by the timeout kill, its pipeline has
\* finished and the lock is free again.
C4_Witness ==
    \E m \in Msgs :
        /\ pc[m] = "done"
        /\ branch[m] = "timeout"
        /\ ~download_lock

\* The URL characters the specification names: no whitespace, no angle
\* bracket, no quote.
StatedUrlChar(c) == c \notin { " ", "\n", "<", ">", "\"", "'" }

RECURSIVE StatedRun(_, _)
StatedRun(text, j) ==
    IF j <= Len(text) /\ StatedUrlChar(text[j]) THEN 1 + StatedRun(text, j + 1) ELSE 0

\* Length of the stated URL at i: the scheme, then one or more URL characters.
StatedLenAt(text, i) ==
    LET n == SchemeLenAt(text, i)
        r == StatedRun(text, i + n)
    IN  IF n = 0 \/ r = 0 THEN 0 ELSE n + r

StatedFirstUrl(text) ==
    LET starts == { i \in 1 .. Len(text) : StatedLenAt(text, i) > 0 }
    IN  IF starts = {} THEN NoUrl
        ELSE LET i == CHOOSE s \in starts : \A t \in starts : s <= t
             IN  SubSeq(text, i, i + StatedLenAt(text, i) - 1)

\* C5: extract_url returns the first occurrence of http:// or https://
\* followed by one or more non-whitespace, non-angle-bracket, non-quote
\* characters, and None when the text holds none.
C5_ExtractReturnsFirstUrl ==
    ext_pc = "done" => out_url = StatedFirstUrl(in_text)

\* C6: a message of a user whose text holds a URL, arriving while the lock
\* is free, is taken up; and when its fetch gave a file of at most
\* MAX_ATTACHMENT_BYTES that was attached, exactly one reply carries the
\* file and the local file is absent once the pipeline has ended.
C6_EndToEndAttach ==
    /\ (/\ last.m # 0
        /\ ~last.message.author.bot
        /\ StatedFirstUrl(last.message.content) # NoUrl
        /\ ~last.gate) => pc[last.m] \in PipelinePcs
    /\ \A m \in Msgs :
         (pc[m] = "done" /\ branch[m] = "attach") =>
             /\ Len(sent[m]) = 1
             /\ sent[m][1].kind = "attachment"
             /\ ~exists(files, sent[m][1].file)

\* C7: after a successful fetch the branch is decided by the file size
\* alone: at most MAX_ATTACHMENT_BYTES is attached, more is published.
C7_DispatchBySize ==
    \A m \in Msgs :
        /\ pc[m] \in { "send_attach", "send110" } =>
               local[m].file_size <= MAX_ATTACHMENT_BYTES
        /\ pc[m] \in { "send_link", "send103_try", "send103_exc" } =>
               local[m].file_size >= MAX_ATTACHMENT_BYTES + 1
        /\ pc[m] \in { "send_attach", "send_link", "send103_try" } =>
               \A f \in files :
                   f.path = local[m].downloaded_file => f.size = local[m].file_size

\* C7 witness: a file of exactly MAX_ATTACHMENT_BYTES is being attached.
C7_Witness ==
    \E m \in Msgs :
        /\ pc[m] = "send_attach"
        /\ local[m].file_size = MAX_ATTACHMENT_BYTES
        /\ exists(files, local[m].downloaded_file)

\* C8: when run_ytdlp has reported TIMEOUT (the ERROR 101 notice is about to
\* be sent or the request ended on the timeout branch), the subprocess of
\* the request has been killed and reaped: it is not running any more.
C8_TimeoutAfterReap ==
    \A m \in Msgs :
        /\ pc[m] = "send101" => proc[m].st = "reaped"
        /\ branch[m] = "timeout" => proc[m].st \notin { "running", "killed" }

\* C8 witness: the timeout fired on a running subprocess that had written
\* a file, and TIMEOUT is reported.
C8_Witness ==
    \E m \in Msgs :
        /\ pc[m] = "send101"
        /\ proc[m].st = "reaped"
        /\ proc[m].wrote

FailureBranches == { "timeout", "fetch_failure", "attach_failure", "publish_failure",
                     "link_failure" }

\* C9: once the pipeline of a request has ended on a failure branch, no file
\* written by that request is left in the temp directory.
C9_NoFileLeftOnFailure ==
    \A m \in Msgs :
        (pc[m] = "done" /\ branch[m] \in FailureBranches) =>
            ~\E f \in files : f.by = m

\* C10: when send_as_attachment ends, after a delivered or a failed send,
\* the local file is absent and no cleanup thread was started for it.
C10_AttachFileDeleted ==
    [][\A m \in Msgs :
          (pc[m] \in { "send_attach", "send110" } /\ pc'[m] = "done") =>
              /\ ~exists(files', local[m].downloaded_file)
              /\ cleanups' = cleanups]_vars

\* Request i has a cleanup thread that has not finished.
Pending(i) == \E t \in cleanups : t.id = i

\* C11: every cleanup thread that schedule_cleanup started for a published
\* file runs to its end; when it wakes, the server of its port is out of the
\* registry and the port is unbound, and when it ends its file is absent.
C11_PublishedTornDown ==
    /\ \A i \in Msgs : Pending(i) ~> ~Pending(i)
    /\ [][\A t \in cleanups :
              /\ (t.pc = "sleep" /\ t \notin cleanups') =>
                     /\ t.port \notin DOMAIN active_servers'
                     /\ t.port \notin listening'
              /\ (t.pc = "file" /\ t \notin cleanups') =>
                     ~exists(files', t.file)]_vars

\* C11 witness: a cleanup thread has woken and stopped its server, which is
\* neither registered nor bound; the file is still to be removed.
C11_Witness ==
    \E t \in cleanups :
        /\ t.pc = "file"
        /\ t.port \notin DOMAIN active_servers
        /\ t.port \notin listening
        /\ exists(files, t.file)

ExhaustedPcs == { "send103_try", "send103_exc" }

\* C13: the bind loop makes at most max_attempts calls of start_file_server;
\* when all of them fail the loop has made exactly max_attempts calls and has
\* left the registry and the cleanup threads as they were, and when the
\* request then ends the source file is absent, only code-103 notices were
\* delivered, and still no server was registered and no cleanup scheduled.
C13_RetryExhaustion ==
    /\ [](attempts <= max_attempts)
    /\ [][\A m \in Msgs :
              /\ (pc[m] = "fetching" /\ pc'[m] = "send103_try") =>
                     /\ attempts' = max_attempts
                     /\ active_servers' = active_servers
                     /\ cleanups' = cleanups
              /\ (/\ pc[m] \in ExhaustedPcs
                  /\ branch[m] = "publish_failure"
                  /\ pc'[m] # pc[m]) =>
                     /\ active_servers' = active_servers
                     /\ cleanups' = cleanups
                     /\ \A i \in 1 .. Len(sent'[m]) : sent'[m][i].kind = "103"
                     /\ pc'[m] = "done" => ~exists(files', local[m].downloaded_file)]_vars

\* The server of `port` is registered for the file `path`, which exists.
Served(path, port) ==
    /\ exists(files, path)
    /\ port \in DOMAIN active_servers
    /\ active_servers[port] = path

\* C14: from the successful bind until the cleanup thread of the request
\* wakes, the published file exists and its server is registered: while the
\* link is being sent, and as long as the thread sleeps.
C14_PublishedFileSurvives ==
    /\ \A m \in Msgs :
           pc[m] = "send_link" => Served(local[m].downloaded_file, local[m].port)
    /\ \A t \in cleanups :
           t.pc = "sleep" => Served(t.file, t.port)

\* C15: a cleanup thread never waits for download_lock (its next step is
\* enabled whether the lock is held or free) and its steps leave the lock
\* and every handler as they are; whether a URL message of a user is taken
\* up depends on the lock alone, whatever servers and cleanup threads are
\* alive.
C15_SchedulerIndependentOfGate ==
    /\ [](\A i \in Msgs : (Pending(i) /\ Settled) => ENABLED CleanupStep(i))
    /\ [][cleanups' \subseteq cleanups /\ cleanups' # cleanups =>
              /\ download_lock' = download_lock
              /\ pc' = pc]_vars
    /\ [](LastPassesFilter => (pc[last.m] \in PipelinePcs <=> ~last.gate))

\* C15 witness: under the held lock a request has fetched and published a
\* file of its own while the cleanup thread of an earlier request is pending
\* and that request's server is registered: two published files are alive.
C15_Witness ==
    \E m \in Msgs, t \in cleanups :
        /\ download_lock
        /\ pc[m] = "send_link"
        /\ t.pc = "sleep"
        /\ Served(t.file, t.port)
        /\ Served(local[m].downloaded_file, local[m].port)
        /\ local[m].port # t.port
        /\ local[m].downloaded_file # t.file

BusyNotice == Notice("100", NoPath, 0)

\* C16: a URL message of a user that meets the held lock goes to the send of
\* the busy notice exactly when its channel is a direct-message channel, and
\* returns at once without any send otherwise; a busy notice is delivered
\* only by that send, and a rejected request is sent nothing else.
C16_BusyNoticeIffDM ==
    /\ []((LastPassesFilter /\ last.gate) =>
              /\ pc[last.m] = "busy_send" <=> last.message.channel_is_dm
              /\ pc[last.m] = "rejected" <=> ~last.message.channel_is_dm
              /\ sent[last.m] = << >>)
    /\ [][\A m \in Msgs :
              /\ (pc[m] = "busy_send" /\ pc'[m] # pc[m]) =>
                     /\ msg[m].channel_is_dm
                     /\ pc'[m] = "rejected"
                     /\ sent'[m] \in { << >>, << BusyNotice >> }
              /\ (pc[m] # "busy_send" /\ sent'[m] # sent[m]) =>
                     \A i \in 1 .. Len(sent'[m]) : sent'[m][i] # BusyNotice
              /\ (pc[m] = "rejected" /\ sent[m] = << >>) => sent'[m] = << >>]_vars

\* C16 witness: a request rejected on a direct-message channel has got the
\* busy notice.
C16_Witness ==
    \E m \in Msgs :
        /\ pc[m] = "rejected"
        /\ sent[m] = << BusyNotice >>

\* The kind of the terminal notice of each branch of process_download.
NoticeOfBranch(b) ==
    CASE b = "attach" -> "attachment"
      [] b = "publish" -> "link"
      [] b = "timeout" -> "101"
      [] b = "fetch_failure" -> "102"
      [] b \in { "publish_failure", "link_failure" } -> "103"
      [] b = "attach_failure" -> "110"
      [] OTHER -> "none"

\* C17 as stated: a request that has left the pipeline has got exactly one
\* terminal notice, the one of its branch.
C17_ExactlyOneNotice ==
    \A m \in Msgs :
        pc[m] = "done" =>
            /\ Len(sent[m]) = 1
            /\ sent[m][1].kind = NoticeOfBranch(branch[m])

\* C17 amended: a request inside the pipeline has got no notice yet; one
\* that has left it has got at most one notice, of the kind of its branch
\* (so never a success notice and an error notice); the pipeline ends in
\* a send only, and that send is the only step that delivers, so a request
\* has got none only when its last send raised.
C17_AtMostOneNotice ==
    /\ [](\A m \in Msgs :
              /\ pc[m] \in PipelinePcs => sent[m] = << >>
              /\ pc[m] = "done" =>
                     /\ Len(sent[m]) <= 1
                     /\ \A i \in 1 .. Len(sent[m]) :
                            sent[m][i].kind = NoticeOfBranch(branch[m]))
    /\ [][\A m \in Msgs :
              /\ (pc[m] \in PipelinePcs /\ sent'[m] # sent[m]) =>
                     /\ pc'[m] = "done"
                     /\ ~download_lock'
              /\ (pc[m] \in PipelinePcs /\ pc'[m] = "done") =>
                     pc[m] \in PipelinePcs \ { "fetching", "reaping" }]_vars

\* C17 witness: the attachment send raised and the ERROR 110 notice was
\* delivered: the request ended with that one error notice.
C17_Witness ==
    \E m \in Msgs :
        /\ pc[m] = "done"
        /\ branch[m] = "attach_failure"
        /\ Len(sent[m]) = 1
        /\ sent[m][1].kind = "110"

StatedExtMatches(fs, output_path) ==
    { k \in 1 .. Len(VideoExts) : exists(fs, WithExt(output_path, VideoExts[k])) }

\* The resolution order as stated: the first existing extension, else the
\* literal stem, else a most recently created file, else nothing.
StatedResolve(fs, output_path) ==
    LET ks == StatedExtMatches(fs, output_path)
    IN  IF ks # {}
        THEN { WithExt(output_path,
                       VideoExts[CHOOSE k \in ks : \A j \in ks : k <= j]) }
        ELSE IF exists(fs, output_path) THEN { output_path }
        ELSE { f.path : f \in { g \in fs : \A h \in fs : h.ctime <= g.ctime } }

\* C19: after exit code 0 the file process_download goes on with is the one
\* the stated order gives for the files that exist, and the fetch is
\* reported as failed exactly when the stated order finds no file.
C19_ResolutionOrder ==
    [][\A m \in Msgs :
          (/\ pc[m] = "fetching"
           /\ proc[m].st = "exited"
           /\ proc[m].rc = 0
           /\ pc'[m] # pc[m]) =>
              LET stated == StatedResolve(files, local[m].output_path)
              IN  IF pc'[m] = "send102" THEN stated = {}
                  ELSE local'[m].downloaded_file \in stated]_vars

\* C20: the file process_download goes on with after a successful fetch
\* (to attach it or to publish it) was written by the fetch of that same
\* request.
C20_FallbackReturnsOwnFile ==
    [][\A m \in Msgs :
          (/\ pc[m] = "fetching"
           /\ pc'[m] \in { "send_attach", "send_link", "send103_try" }) =>
              \E f \in files : f.path = local'[m].downloaded_file /\ f.by = m]_vars

\* The cleanup threads whose published file is alive: they still sleep.
AlivePublished == { t \in cleanups : t.pc = "sleep" }

\* C21: any two published files that are alive at the same time differ in
\* their file path and in their port, in the cleanup threads and in the
\* registry.
C21_DistinctFilePortPairs ==
    /\ \A t1, t2 \in AlivePublished :
           t1 # t2 => (t1.file # t2.file /\ t1.port # t2.port)
    /\ \A q1, q2 \in DOMAIN active_servers :
           q1 # q2 => active_servers[q1] # active_servers[q2]

\* The stem of a path of the temp directory.
StemOf(path) == get_temp_path(path.ts, path.uid)

\* C22: the stem a newly accepted request gets is the stem of no earlier
\* request: no file of the temp directory (each one written by an earlier
\* request under that request's stem) carries it.
C22_StemUnique ==
    [][\A m \in Msgs :
          (pc[m] = "new" /\ local'[m].output_path # NoPath) =>
              \A f \in files : StemOf(f.path) # local'[m].output_path]_vars

\* C23: a cleanup thread goes from its sleep to the server stop and from
\* there to the file, in that order: the stop takes the port out of the
\* registry and touches no file (on a port that is not registered it changes
\* nothing, and stopping twice equals stopping once), the last step leaves
\* the file absent whether it was still there or not, and a thread that has
\* done its stop always gets to that last step.
C23_TeardownOrder ==
    /\ [](\A q \in Ports :
              /\ q \notin DOMAIN active_servers =>
                     stop_file_server(active_servers, q) = active_servers
              /\ stop_file_server(stop_file_server(active_servers, q), q)
                     = stop_file_server(active_servers, q))
    /\ [][\A t \in cleanups :
              t \notin cleanups' =>
                  IF t.pc = "sleep"
                  THEN /\ [t EXCEPT !.pc = "file"] \in cleanups'
                       /\ active_servers' = stop_file_server(active_servers, t.port)
                       /\ files' = files
                  ELSE /\ t.pc = "file"
                       /\ ~exists(files', t.file)
                       /\ active_servers' = active_servers]_vars
    /\ \A i \in Msgs :
           (\E t \in cleanups : t.id = i /\ t.pc = "file") ~> ~Pending(i)

\* C23 witness: a thread has done its stop and is about to delete a file
\* that is no longer there.
C23_Witness ==
    \E t \in cleanups :
        /\ t.pc = "file"
        /\ ~exists(files, t.file)
        /\ t.port \notin DOMAIN active_servers

\* C24: the registry is safe under every interleaving of the main loop's
\* insert with the cleanup threads' check / shutdown / delete: an inserted
\* server stays registered (no insert is lost), no removal raises, no
\* removal is skipped (a thread past its removal has left no server of its
\* own behind), and a thread only shuts down and removes the server it was
\* scheduled for.
C24_RegistrySafe ==
    /\ [](pc[1] \in { "starting", "send_link" } =>
             /\ local[1].port \in DOMAIN active_servers
             /\ active_servers[local[1].port] = local[1].downloaded_file)
    /\ [](pc[1] = "send_link" => local[1].port \in server_threads)
    /\ [](\A t \in cleanups : t.pc # "raised")
    /\ [](\A t \in cleanups :
             t.pc = "file" => ~(t.port \in DOMAIN active_servers
                                /\ active_servers[t.port] = t.file))
    /\ [][\A t \in cleanups :
             (t.pc \in { "shutting", "deleting" } /\ t \notin cleanups') =>
                 /\ t.port \in DOMAIN active_servers
                 /\ active_servers[t.port] = t.file
                 /\ \A q \in DOMAIN active_servers :
                        q # t.port => (q \in DOMAIN active_servers'
                                       /\ active_servers'[q] = active_servers[q])]_vars

\* The main loop has bound a port and been registered while a thread stands
\* between its shutdown and its delete, and a removal has completed next to
\* a finished insert.
C24_Witness ==
    /\ pc[1] = "send_link"
    /\ \E t \in cleanups : t.pc = "deleting"
    /\ \E t \in cleanups : t.pc = "file"

\* The handler of m is inside serve_online after a server was started.
ServerStarted(m) ==
    /\ pc[m] \in { "send_link", "send103_exc" }
    /\ branch[m] \in { "publish", "link_failure" }

\* C25: no orphan server: when serve_online ends, by any path, the server it
\* started is either deregistered or has a cleanup thread scheduled for its
\* port and file, and a server left registered still has its file.
C25_NoOrphanServer ==
    [][\A m \in Msgs :
          (ServerStarted(m) /\ pc'[m] = "done") =>
              LET q == local[m].port
              IN  q \in DOMAIN active_servers' =>
                      /\ \E t \in cleanups' : t.port = q /\ t.file = active_servers'[q]
                      /\ exists(files', active_servers'[q])]_vars

\* The link notices sent to the requester of m.
LinksSent(m) == { sent[m][j] : j \in { j \in DOMAIN sent[m] : sent[m][j].kind = "link" } }

\* C26: on a successful publish the port kept for the URL is the port the
\* successful attempt bound, whatever ports earlier attempts tried; the link
\* sent carries that port and the published file, and the cleanup thread
\* scheduled after it is for exactly that port and that file.
C26_UrlPortIsBoundPort ==
    /\ [][\A m \in Msgs :
             (pc[m] = "fetching" /\ pc'[m] = "send_link") =>
                 /\ attempts' \in 1 .. max_attempts
                 /\ listening' \ listening = { local'[m].port }
                 /\ local'[m].port \notin DOMAIN active_servers
                 /\ active_servers'[local'[m].port] = local'[m].downloaded_file]_vars
    /\ [][\A m \in Msgs :
             (pc[m] = "send_link" /\ pc'[m] = "done") =>
                 LET q == local[m].port
                     f == local[m].downloaded_file
                 IN  /\ q \in DOMAIN active_servers /\ active_servers[q] = f
                     /\ sent'[m] = Append(sent[m], Notice("link", f, q))
                     /\ cleanups' = cleanups \cup { [id |-> m, file |-> f, port |-> q,
                                                      pc |-> "sleep"] }]_vars
    /\ [](\A m \in Msgs : pc[m] = "send_link" =>
             /\ local[m].port \in DOMAIN active_servers
             /\ active_servers[local[m].port] = local[m].downloaded_file)

\* A link was sent for the second port while a server of an earlier request
\* holds the first, and the thread scheduled for the link sleeps.
C26_Witness ==
    \E m \in Msgs :
        /\ pc[m] = "done"
        /\ \E n \in LinksSent(m) :
             /\ n.port = 8001
             /\ 8000 \in DOMAIN active_servers
             /\ active_servers[n.port] = n.file
             /\ [id |-> m, file |-> n.file, port |-> n.port, pc |-> "sleep"] \in cleanups

\* C27: a message sent by the bot itself, sent by another bot, or holding no
\* URL is ignored, and an ignored message changes nothing: the gate, the
\* registry, the sockets, the temp files, the cleanup threads and the clock
\* are as before, no downloader is started and no message is sent.
C27_IgnoredChangesNothing ==
    [][\A m \in Msgs :
          (/\ pc[m] = "new"
           /\ pc'[m] # "new"
           /\ \/ pc'[m] = "ignored"
              \/ last'.message.author = ClientUser
              \/ last'.message.author.bot
              \/ StatedFirstUrl(last'.message.content) = NoUrl) =>
              /\ last'.m = m
              /\ pc'[m] = "ignored"
              /\ download_lock' = download_lock
              /\ active_servers' = active_servers
              /\ listening' = listening
              /\ server_threads' = server_threads
              /\ files' = files
              /\ cleanups' = cleanups
              /\ proc' = proc
              /\ local' = local
              /\ sent' = sent
              /\ now' = now]_vars

\* Another bot's message with a URL was ignored while the gate was free and
\* a server of an earlier request is registered.
C27_Witness ==
    /\ last.m # 0
    /\ pc[last.m] = "ignored"
    /\ last.message.author = OtherBot
    /\ extract_url(last.message.content) # NoUrl
    /\ ~last.gate
    /\ DOMAIN active_servers # {}
    /\ files # {}

====
